---- MODULE Spec2Model ----
(***************************************************************************)
(* Model of the azurerm_web_pubsub_custom_certificate resource             *)
(* (internal/services/signalr/web_pubsub_custom_certificate_resource.go).  *)
(*                                                                         *)
(* Strings that are paths (resource identifiers, key vault item URLs) are  *)
(* sequences of their "/"-separated segments, so that formatting joins     *)
(* segments and parsing splits and inspects them; the empty string is the  *)
(* empty sequence.  A Go pointer is a sequence of length 0 (nil) or 1.     *)
(* Every host invocation (one resource instance of one host run) is a      *)
(* process of Procs; a lifecycle function is a chain of steps cut at its   *)
(* remote calls, so that invocations of different processes interleave     *)
(* exactly where the Go code waits on the remote API.                      *)
(***************************************************************************)
EXTENDS Naturals, Integers, Sequences, FiniteSets, TLC

\* ------------------------------------------------------------------ bounds
\* Lifecycle invocations (Create, Read or Delete) the host starts in a run.
MaxOps == 3

Procs == {"p1", "p2"}

Subscriptions == {"sub1"}
ResourceGroups == {"rg1"}
Services == {"svcA"}
Names == {"cert1", "cert2"}
VaultHost == "vault1.vault.azure.net"
SecretNames == {"mycert"}
Versions == {"abc123"}
ItemKinds == {"certificates", "secrets"}

EmptyString == <<>>
NilPtr == <<>>
PtrTo(x) == <<x>>

\* ------------------------------------------------------- identifier grammar
\* webpubsub.NewWebPubSubID: the structured parent-service identifier.
NewWebPubSubID(sub, rg, svc) ==
  [SubscriptionId |-> sub, ResourceGroupName |-> rg, WebPubSubName |-> svc]

\* WebPubSubId.ID(): the formatted string.
WebPubSubIDString(w) ==
  << "subscriptions", w.SubscriptionId, "resourceGroups", w.ResourceGroupName,
     "providers", "Microsoft.SignalRService", "webPubSub", w.WebPubSubName >>

\* webpubsub.ParseWebPubSubID: case-sensitive parse of the formatted string.
ParseWebPubSubID(s) ==
  IF /\ Len(s) = 8
     /\ s[1] = "subscriptions" /\ s[3] = "resourceGroups" /\ s[5] = "providers"
     /\ s[6] = "Microsoft.SignalRService" /\ s[7] = "webPubSub"
     /\ s[2] # "" /\ s[4] # "" /\ s[8] # ""
  THEN [ok |-> TRUE, id |-> NewWebPubSubID(s[2], s[4], s[8])]
  ELSE [ok |-> FALSE, id |-> NewWebPubSubID("", "", "")]

\* webpubsub.NewCustomCertificateID
NewCustomCertificateID(sub, rg, svc, name) ==
  [SubscriptionId |-> sub, ResourceGroupName |-> rg, WebPubSubName |-> svc,
   CustomCertificateName |-> name]

\* CustomCertificateId.ID(): <parent-service-scope>/customCertificates/<name>
CustomCertificateIDString(c) ==
  WebPubSubIDString(NewWebPubSubID(c.SubscriptionId, c.ResourceGroupName, c.WebPubSubName))
    \o << "customCertificates", c.CustomCertificateName >>

\* webpubsub.ParseCustomCertificateID
ParseCustomCertificateID(s) ==
  IF /\ Len(s) = 10
     /\ ParseWebPubSubID(SubSeq(s, 1, 8)).ok
     /\ s[9] = "customCertificates" /\ s[10] # ""
  THEN [ok |-> TRUE, id |-> NewCustomCertificateID(s[2], s[4], s[8], s[10])]
  ELSE [ok |-> FALSE, id |-> NewCustomCertificateID("", "", "", "")]

\* ------------------------------------------------- key vault nested item ids
\* strings.TrimSuffix(s, "/"): a trailing "/" is a trailing empty segment.
TrimSuffixSlash(s) ==
  IF Len(s) > 0 /\ s[Len(s)] = "" THEN SubSeq(s, 1, Len(s) - 1) ELSE s

\* keyVaultParse.ParseOptionallyVersionedNestedItemID:
\*   https://<host>/<kind>/<name>[/<version>]  ->  (base url, kind, name, version)
\* The base url is "<scheme>://<host>/", with its trailing slash.
ParseOptionallyVersionedNestedItemID(s) ==
  LET t == TrimSuffixSlash(s) IN
  IF /\ Len(t) \in {5, 6}
     /\ t[1] = "https:" /\ t[2] = "" /\ t[3] # ""
     /\ t[4] # "" /\ t[5] # ""
  THEN [ok |-> TRUE,
        KeyVaultBaseUrl |-> << t[1], t[2], t[3], "" >>,
        NestedItemType |-> t[4],
        Name |-> t[5],
        Version |-> IF Len(t) = 6 THEN t[6] ELSE ""]
  ELSE [ok |-> FALSE, KeyVaultBaseUrl |-> EmptyString, NestedItemType |-> "",
        Name |-> "", Version |-> ""]

\* keyVaultParse.NewNestedItemID: fails on an empty base url.
NewNestedItemID(base, kind, name, version) ==
  [ok |-> base # EmptyString, KeyVaultBaseUrl |-> base, NestedItemType |-> kind,
   Name |-> name, Version |-> version]

\* NestedItemId.ID(): base without its trailing slash, kind, name and the
\* version only when there is one.
NestedItemIDString(n) ==
  TrimSuffixSlash(n.KeyVaultBaseUrl) \o << n.NestedItemType, n.Name >>
    \o (IF n.Version # "" THEN << n.Version >> ELSE << >>)

\* utils.NormalizeNilableString: "" for nil, the pointee otherwise.
NormalizeNilableString(p) == IF p = NilPtr THEN "" ELSE p[1]

\* response.WasNotFound: false for a nil *http.Response (status 0 here).
WasNotFound(resp) == resp.status = 404

\* --------------------------------------------------------------- the inputs
ValidParentInputs ==
  { WebPubSubIDString(NewWebPubSubID(s, g, n)) :
      s \in Subscriptions, g \in ResourceGroups, n \in Services }

\* A parent identifier ParseWebPubSubID refuses (it stops after the group).
MalformedParentInput == << "subscriptions", "sub1", "resourceGroups", "rg1" >>

\* Both accepted grammars (with and without a version) and every item kind.
ValidSecretReferenceInputs ==
  { << "https:", "", VaultHost, k, n >> : k \in ItemKinds, n \in SecretNames }
    \cup { << "https:", "", VaultHost, k, n, v >> :
             k \in ItemKinds, n \in SecretNames, v \in Versions }

\* A string neither grammar accepts (a vault address without an item).
MalformedSecretReferenceInput == << "https:", "", VaultHost >>

\* CustomCertWebPubsubModel as the host hands it to Create; decodeOk is
\* whether metadata.Decode succeeds on it.  Every well-formed configuration,
\* and one configuration for each way of being malformed.
Configs ==
  [ decodeOk : {TRUE}, Name : Names, WebPubsubId : ValidParentInputs,
    CustomCertId : ValidSecretReferenceInputs ]
    \cup { [ decodeOk |-> TRUE, Name |-> "cert1", WebPubsubId |-> MalformedParentInput,
             CustomCertId |-> << "https:", "", VaultHost, "certificates", "mycert" >> ],
           [ decodeOk |-> TRUE, Name |-> "cert1",
             WebPubsubId |-> WebPubSubIDString(NewWebPubSubID("sub1", "rg1", "svcA")),
             CustomCertId |-> MalformedSecretReferenceInput ],
           [ decodeOk |-> FALSE, Name |-> "", WebPubsubId |-> EmptyString,
             CustomCertId |-> EmptyString ] }

NoConfig ==
  [ decodeOk |-> FALSE, Name |-> "", WebPubsubId |-> EmptyString,
    CustomCertId |-> EmptyString ]

AllIds ==
  { CustomCertificateIDString(NewCustomCertificateID(s, g, n, c)) :
      s \in Subscriptions, g \in ResourceGroups, n \in Services, c \in Names }

\* ------------------------------------------------------------ the remote API
\* What CustomCertificatesGet can answer for an object slot: the object (or,
\* against the contract, a success without a payload) when there is one, 404
\* when there is none, and a failure with or without an HTTP response always.
GetResponses(slot) ==
  { [err |-> TRUE, status |-> 500, model |-> NilPtr],
    [err |-> TRUE, status |-> 0, model |-> NilPtr] }
  \cup (IF slot = NilPtr
        THEN { [err |-> TRUE, status |-> 404, model |-> NilPtr] }
        ELSE { [err |-> FALSE, status |-> 200, model |-> slot],
               [err |-> FALSE, status |-> 200, model |-> NilPtr] })

NoResponse == [err |-> FALSE, status |-> 0, model |-> NilPtr]

\* CustomCertificatesCreateOrUpdateThenPoll: the request is refused, or it is
\* accepted and the poller waits for the operation's terminal state, which is
\* success or failure (a failed operation may or may not have left the object).
PutOutcomes == { "succeeded", "submit_failed", "poll_failed", "poll_failed_written" }

\* CustomCertificatesDelete: one request.  The remote removes the object
\* before it answers ("deleted"), answers that the removal is under way
\* ("accepted"), or the call fails, the object removed or not.
DeleteOutcomes == { "deleted", "accepted", "failed", "failed_deleted" }

\* KeyVaultIDFromBaseUrl returns (*string, error): an error, an identifier
\* (well-formed or not), or neither.
ResolveOutcomes == { "error", "id", "bad_id", "none" }

\* --------------------------------------------------------------- Create
\* Create, lines 79-98: decode, the two parses and the derived identifier.
CreatePrepare(c) ==
  LET w == ParseWebPubSubID(c.WebPubsubId)
      k == ParseOptionallyVersionedNestedItemID(c.CustomCertId)
      bad == ParseOptionallyVersionedNestedItemID(EmptyString)
  IN  IF ~c.decodeOk
      THEN [err |-> "decoding", id |-> EmptyString, cert |-> bad]
      ELSE IF ~w.ok
      THEN [err |-> "parsing web pubsub service id error", id |-> EmptyString, cert |-> bad]
      ELSE IF ~k.ok
      THEN [err |-> "parsing custom certificate id error", id |-> EmptyString, cert |-> bad]
      ELSE [err |-> "",
            id |-> CustomCertificateIDString(
                     NewCustomCertificateID(w.id.SubscriptionId, w.id.ResourceGroupName,
                                            w.id.WebPubSubName, c.Name)),
            cert |-> k]

\* A plausible slip: the lookup's result is ignored and Create always goes on.
CreateCheckExisting_NoImportCheck(existing) ==
  IF existing.err /\ ~WasNotFound(existing) THEN "checking for existing" ELSE ""

\* A plausible slip: a failure without an HTTP response is not told from a
\* response and falls through to the import check.
CreateCheckExisting_NilResponse(existing) ==
  IF existing.err /\ existing.status # 0 /\ ~WasNotFound(existing)
  THEN "checking for existing"
  ELSE IF ~WasNotFound(existing) THEN "requires import" ELSE ""

\* A plausible slip: the import test looks at the payload, not at the status.
CreateCheckExisting_PayloadTest(existing) ==
  IF existing.err /\ ~WasNotFound(existing)
  THEN "checking for existing"
  ELSE IF existing.model # NilPtr THEN "requires import" ELSE ""

\* Create, lines 100-107: "" is "go on and create".
CreateCheckExisting(existing) ==
  IF existing.err /\ ~WasNotFound(existing)
  THEN "checking for existing"
  ELSE IF ~WasNotFound(existing) THEN "requires import" ELSE ""

\* A plausible slip: the version pointer is always set.
BuildCustomCertObj_AlwaysVersion(k) ==
  [ KeyVaultBaseUri |-> k.KeyVaultBaseUrl, KeyVaultSecretName |-> k.Name,
    KeyVaultSecretVersion |-> PtrTo(k.Version) ]

\* Create, lines 109-118.
BuildCustomCertObj(k) ==
  [ KeyVaultBaseUri |-> k.KeyVaultBaseUrl, KeyVaultSecretName |-> k.Name,
    KeyVaultSecretVersion |-> IF k.Version # "" THEN PtrTo(k.Version) ELSE NilPtr ]

\* A plausible slip: the identifier is set before the error is looked at.
CreateFinish_SetIdFirst(failed) ==
  [ err |-> IF failed THEN "creating web pubsub custom certificate" ELSE "",
    setId |-> TRUE ]

\* Create, lines 120-125.
CreateFinish(failed) ==
  [ err |-> IF failed THEN "creating web pubsub custom certificate" ELSE "",
    setId |-> ~failed ]

\* ----------------------------------------------------------------- Read
\* A plausible slip: not-found is reported like any other failure.
ReadCheckResponse_NotFoundIsError(resp) ==
  IF resp.err THEN "retrieving"
  ELSE IF resp.model = NilPtr THEN "got nil model" ELSE ""

\* Read, lines 142-152: "gone" is MarkAsGone, "" is "go on".
ReadCheckResponse(resp) ==
  IF resp.err
  THEN (IF WasNotFound(resp) THEN "gone" ELSE "retrieving")
  ELSE IF resp.model = NilPtr THEN "got nil model" ELSE ""

\* Read, lines 157-164: the resolver's error, the dereference of what it
\* returned, and the parse of the vault identifier.
ReadResolveVault(o) ==
  CASE o = "error" -> "getting key vault base uri"
    [] o = "none" -> "panic: nil pointer dereference"
    [] o = "bad_id" -> "parsing key vault"
    [] OTHER -> ""

\* A plausible slip: the name is taken from the wrong segment.
ReadBuildState_WrongName(cid, m) ==
  LET certVersion == IF m.KeyVaultSecretVersion # NilPtr
                     THEN m.KeyVaultSecretVersion[1] ELSE ""
      nestedItem == NewNestedItemID(m.KeyVaultBaseUri, "certificates",
                                    m.KeyVaultSecretName, certVersion)
  IN  [ ok |-> nestedItem.ok,
        state |-> [ Name |-> cid.WebPubSubName,
                    CustomCertId |-> NestedItemIDString(nestedItem),
                    WebPubsubId |-> WebPubSubIDString(
                        NewWebPubSubID(cid.SubscriptionId, cid.ResourceGroupName,
                                       cid.WebPubSubName)),
                    CertificateVersion |->
                        NormalizeNilableString(m.KeyVaultSecretVersion) ] ]

\* Read, lines 166-182: the record Read encodes, from the parsed identifier
\* and the remote object.
ReadBuildState(cid, m) ==
  LET certVersion == IF m.KeyVaultSecretVersion # NilPtr
                     THEN m.KeyVaultSecretVersion[1] ELSE ""
      nestedItem == NewNestedItemID(m.KeyVaultBaseUri, "certificates",
                                    m.KeyVaultSecretName, certVersion)
  IN  [ ok |-> nestedItem.ok,
        state |-> [ Name |-> cid.CustomCertificateName,
                    CustomCertId |-> NestedItemIDString(nestedItem),
                    WebPubsubId |-> WebPubSubIDString(
                        NewWebPubSubID(cid.SubscriptionId, cid.ResourceGroupName,
                                       cid.WebPubSubName)),
                    CertificateVersion |->
                        NormalizeNilableString(m.KeyVaultSecretVersion) ] ]

\* --------------------------------------------------------------- Delete
\* A plausible slip: the delete request's error is dropped.
DeleteResult_IgnoreError(failed) == ""

\* Delete, lines 199-202.
DeleteResult(failed) == IF failed THEN "deleting" ELSE ""

\* ---------------------------------------------------------------- state
VARIABLES
  store,      \* the remote API: identifier string -> pointer to the object
  deleting,   \* identifiers whose removal the remote accepted and has not done
  writers,    \* history: per identifier, the processes whose create-or-update
              \* wrote an object since the identifier was last free
  pc,         \* where each process is
  op,         \* the lifecycle function it runs or last ran
  nops,       \* invocations the host has started
  cfg,        \* the configuration its resource was declared with
  key,        \* metadata.ResourceData.Id(): the persisted state key
  state,      \* pointer to the record metadata.Encode stored
  result,     \* the error the function returned ("" is nil)
  id,         \* the identifier string the running function works on
  cert,       \* Create: the parsed secret reference
  obj,        \* Create: pointer to the object it submitted
  resp,       \* the answer of the function's CustomCertificatesGet
  cnt,        \* requests the running function has issued
  outcome,    \* history: how its create-or-update, delete or vault lookup ended
  seen,       \* history: writers of the identifier when Create's Get answered
  atReturn,   \* history: pointer to the remote object when Delete returned
  before      \* history: key and state when the function was invoked

vars == << store, deleting, writers, pc, op, nops, cfg, key, state, result, id,
           cert, obj, resp, cnt, outcome, seen, atReturn, before >>

NoCert == ParseOptionallyVersionedNestedItemID(EmptyString)
NoCount == [ gets |-> 0, puts |-> 0, polls |-> 0, dels |-> 0, resolves |-> 0,
             encodes |-> 0 ]

Init ==
  /\ store = [ i \in AllIds |-> NilPtr ]
  /\ deleting = {}
  /\ writers = [ i \in AllIds |-> {} ]
  /\ pc = [ p \in Procs |-> "idle" ]
  /\ op = [ p \in Procs |-> "" ]
  /\ nops = 0
  /\ cfg = [ p \in Procs |-> NoConfig ]
  /\ key = [ p \in Procs |-> EmptyString ]
  /\ state = [ p \in Procs |-> NilPtr ]
  /\ result = [ p \in Procs |-> "" ]
  /\ id = [ p \in Procs |-> EmptyString ]
  /\ cert = [ p \in Procs |-> NoCert ]
  /\ obj = [ p \in Procs |-> NilPtr ]
  /\ resp = [ p \in Procs |-> NoResponse ]
  /\ cnt = [ p \in Procs |-> NoCount ]
  /\ outcome = [ p \in Procs |-> "" ]
  /\ seen = [ p \in Procs |-> {} ]
  /\ atReturn = [ p \in Procs |-> NilPtr ]
  /\ before = [ p \in Procs |-> [ key |-> EmptyString, state |-> NilPtr ] ]

\* The remote's object at an identifier string (none at one it does not know).
Slot(i) == IF i \in DOMAIN store THEN store[i] ELSE NilPtr

\* What every invocation starts from.
Invoke(p, name) ==
  /\ pc[p] = "idle"
  /\ nops < MaxOps
  /\ op' = [ op EXCEPT ![p] = name ]
  /\ nops' = nops + 1
  /\ before' = [ before EXCEPT ![p] = [ key |-> key[p], state |-> state[p] ] ]

\* Create up to its first remote call (lines 79-98).
CreateBegin(p, c) ==
  /\ key[p] = EmptyString
  /\ Invoke(p, "Create")
  /\ LET r == CreatePrepare(c) IN
       /\ cfg' = [ cfg EXCEPT ![p] = c ]
       /\ result' = [ result EXCEPT ![p] = r.err ]
       /\ id' = [ id EXCEPT ![p] = r.id ]
       /\ cert' = [ cert EXCEPT ![p] = r.cert ]
       /\ pc' = [ pc EXCEPT ![p] = IF r.err = "" THEN "create_get" ELSE "done" ]
  /\ UNCHANGED << store, deleting, writers, key, state, obj, resp, cnt, outcome, seen,
                  atReturn >>

\* Create's existence check and what it decides (lines 100-118).
CreateGet(p, existing) ==
  /\ pc[p] = "create_get"
  /\ existing \in GetResponses(Slot(id[p]))
  /\ LET e == CreateCheckExisting(existing) IN
       /\ resp' = [ resp EXCEPT ![p] = existing ]
       /\ cnt' = [ cnt EXCEPT ![p].gets = @ + 1 ]
       /\ seen' = [ seen EXCEPT ![p] = writers[id[p]] ]
       /\ result' = [ result EXCEPT ![p] = e ]
       /\ obj' = [ obj EXCEPT ![p] =
                     IF e = "" THEN PtrTo(BuildCustomCertObj(cert[p])) ELSE NilPtr ]
       /\ pc' = [ pc EXCEPT ![p] = IF e = "" THEN "create_put" ELSE "done" ]
  /\ UNCHANGED << store, deleting, writers, op, nops, cfg, key, state, id, cert,
                  outcome, atReturn, before >>

\* Create's create-or-update, polled to its end, and SetID (lines 120-125).
CreatePut(p, o) ==
  /\ pc[p] = "create_put"
  /\ o \in PutOutcomes
  /\ LET written == o \in { "succeeded", "poll_failed_written" }
         f == CreateFinish(o # "succeeded")
     IN
       /\ store' = IF written THEN [ store EXCEPT ![id[p]] = obj[p] ] ELSE store
       /\ writers' = IF written THEN [ writers EXCEPT ![id[p]] = @ \cup {p} ] ELSE writers
       /\ cnt' = [ cnt EXCEPT ![p].puts = @ + 1,
                              ![p].polls = IF o = "submit_failed" THEN @ ELSE @ + 1 ]
       /\ result' = [ result EXCEPT ![p] = f.err ]
       /\ key' = [ key EXCEPT ![p] = IF f.setId THEN id[p] ELSE @ ]
       /\ outcome' = [ outcome EXCEPT ![p] = o ]
       /\ pc' = [ pc EXCEPT ![p] = "done" ]
  /\ UNCHANGED << deleting, op, nops, cfg, state, id, cert, obj, resp, seen,
                  atReturn, before >>

\* Read up to its remote call (lines 134-140).
ReadBegin(p) ==
  /\ key[p] # EmptyString
  /\ Invoke(p, "Read")
  /\ LET parsed == ParseCustomCertificateID(key[p]) IN
       /\ id' = [ id EXCEPT ![p] = IF parsed.ok THEN key[p] ELSE EmptyString ]
       /\ result' = [ result EXCEPT ![p] = IF parsed.ok THEN "" ELSE "parsing id" ]
       /\ pc' = [ pc EXCEPT ![p] = IF parsed.ok THEN "read_get" ELSE "done" ]
  /\ UNCHANGED << store, deleting, writers, cfg, key, state, cert, obj, resp, cnt,
                  outcome, seen, atReturn >>

\* Read's Get and what it decides (lines 142-155); MarkAsGone empties the
\* state key, which drops the binding from state.
ReadGet(p, r) ==
  /\ pc[p] = "read_get"
  /\ r \in GetResponses(Slot(id[p]))
  /\ LET e == ReadCheckResponse(r) IN
       /\ resp' = [ resp EXCEPT ![p] = r ]
       /\ cnt' = [ cnt EXCEPT ![p].gets = @ + 1 ]
       /\ result' = [ result EXCEPT ![p] = IF e = "gone" THEN "" ELSE e ]
       /\ key' = [ key EXCEPT ![p] = IF e = "gone" THEN EmptyString ELSE @ ]
       /\ state' = [ state EXCEPT ![p] = IF e = "gone" THEN NilPtr ELSE @ ]
       /\ pc' = [ pc EXCEPT ![p] = IF e = "" THEN "read_resolve" ELSE "done" ]
  /\ UNCHANGED << store, deleting, writers, op, nops, cfg, id, cert, obj, outcome,
                  seen, atReturn, before >>

\* Read's vault lookup, the record it builds and Encode (lines 157-184).
ReadResolve(p, o) ==
  /\ pc[p] = "read_resolve"
  /\ o \in ResolveOutcomes
  /\ LET e == ReadResolveVault(o)
         b == ReadBuildState(ParseCustomCertificateID(id[p]).id, resp[p].model[1])
         encode == e = "" /\ b.ok
     IN
       /\ cnt' = [ cnt EXCEPT ![p].resolves = @ + 1,
                              ![p].encodes = IF encode THEN @ + 1 ELSE @ ]
       /\ result' = [ result EXCEPT ![p] =
                        IF e # "" THEN e ELSE IF b.ok THEN "" ELSE "parsing nested item" ]
       /\ state' = [ state EXCEPT ![p] = IF encode THEN PtrTo(b.state) ELSE @ ]
       /\ outcome' = [ outcome EXCEPT ![p] = o ]
       /\ pc' = [ pc EXCEPT ![p] = "done" ]
  /\ UNCHANGED << store, deleting, writers, op, nops, cfg, key, id, cert, obj, resp,
                  seen, atReturn, before >>

\* Delete up to its remote call (lines 193-198).
DeleteBegin(p) ==
  /\ key[p] # EmptyString
  /\ Invoke(p, "Delete")
  /\ LET parsed == ParseCustomCertificateID(key[p]) IN
       /\ id' = [ id EXCEPT ![p] = IF parsed.ok THEN key[p] ELSE EmptyString ]
       /\ result' = [ result EXCEPT ![p] = IF parsed.ok THEN "" ELSE "parsing id" ]
       /\ pc' = [ pc EXCEPT ![p] = IF parsed.ok THEN "delete_request" ELSE "done" ]
  /\ UNCHANGED << store, deleting, writers, cfg, key, state, cert, obj, resp, cnt,
                  outcome, seen, atReturn >>

\* Delete's one request and its return (lines 199-202).
DeleteRequest(p, o) ==
  /\ pc[p] = "delete_request"
  /\ o \in DeleteOutcomes
  /\ LET removed == o \in { "deleted", "failed_deleted" }
         after == IF removed THEN NilPtr ELSE store[id[p]]
     IN
       /\ store' = [ store EXCEPT ![id[p]] = after ]
       /\ writers' = [ writers EXCEPT ![id[p]] = IF removed THEN {} ELSE @ ]
       /\ deleting' = IF o = "accepted" /\ store[id[p]] # NilPtr
                      THEN deleting \cup { id[p] }
                      ELSE IF removed THEN deleting \ { id[p] } ELSE deleting
       /\ atReturn' = [ atReturn EXCEPT ![p] = after ]
       /\ cnt' = [ cnt EXCEPT ![p].dels = @ + 1 ]
       /\ result' = [ result EXCEPT ![p] =
                        DeleteResult(o \in { "failed", "failed_deleted" }) ]
       /\ outcome' = [ outcome EXCEPT ![p] = o ]
       /\ pc' = [ pc EXCEPT ![p] = "done" ]
  /\ UNCHANGED << op, nops, cfg, key, state, id, cert, obj, resp, seen, before >>

\* The remote finishes a removal it had accepted.
RemoteFinishDelete(i) ==
  /\ i \in deleting
  /\ deleting' = deleting \ { i }
  /\ store' = [ store EXCEPT ![i] = NilPtr ]
  /\ writers' = [ writers EXCEPT ![i] = {} ]
  /\ UNCHANGED << pc, op, nops, cfg, key, state, result, id, cert, obj, resp, cnt,
                  outcome, seen, atReturn, before >>

\* The host takes the function's return: after a Delete without error the
\* resource leaves the state; the function's locals are gone.
HostReturn(p) ==
  /\ pc[p] = "done"
  /\ pc' = [ pc EXCEPT ![p] = "idle" ]
  /\ key' = [ key EXCEPT ![p] =
                IF op[p] = "Delete" /\ result[p] = "" THEN EmptyString ELSE @ ]
  /\ state' = [ state EXCEPT ![p] =
                  IF op[p] = "Delete" /\ result[p] = "" THEN NilPtr ELSE @ ]
  /\ id' = [ id EXCEPT ![p] = EmptyString ]
  /\ cert' = [ cert EXCEPT ![p] = NoCert ]
  /\ obj' = [ obj EXCEPT ![p] = NilPtr ]
  /\ resp' = [ resp EXCEPT ![p] = NoResponse ]
  /\ cnt' = [ cnt EXCEPT ![p] = NoCount ]
  /\ outcome' = [ outcome EXCEPT ![p] = "" ]
  /\ seen' = [ seen EXCEPT ![p] = {} ]
  /\ atReturn' = [ atReturn EXCEPT ![p] = NilPtr ]
  /\ result' = [ result EXCEPT ![p] = "" ]
  /\ op' = [ op EXCEPT ![p] = "" ]
  /\ cfg' = [ cfg EXCEPT ![p] = IF key'[p] = EmptyString THEN NoConfig ELSE @ ]
  /\ before' = [ before EXCEPT ![p] = [ key |-> EmptyString, state |-> NilPtr ] ]
  /\ UNCHANGED << store, deleting, writers, nops >>

Next ==
  \/ \E p \in Procs, c \in Configs : CreateBegin(p, c)
  \/ \E p \in Procs : \E r \in GetResponses(Slot(id[p])) : CreateGet(p, r)
  \/ \E p \in Procs, o \in PutOutcomes : CreatePut(p, o)
  \/ \E p \in Procs : ReadBegin(p)
  \/ \E p \in Procs : \E r \in GetResponses(Slot(id[p])) : ReadGet(p, r)
  \/ \E p \in Procs, o \in ResolveOutcomes : ReadResolve(p, o)
  \/ \E p \in Procs : DeleteBegin(p)
  \/ \E p \in Procs, o \in DeleteOutcomes : DeleteRequest(p, o)
  \/ \E i \in AllIds : RemoteFinishDelete(i)
  \/ \E p \in Procs : HostReturn(p)

Spec == Init /\ [][Next]_vars

\* =================================================================== claims
Done(p, name) == pc[p] = "done" /\ op[p] = name

\* C1: a Create whose existence Get finds the object (as it does once an
\* earlier Create with the same parent and name has succeeded) returns the
\* import-required error having issued that one Get and nothing else, and sets
\* no state key; a Create whose Get reports not-found and whose
\* create-or-update succeeds returns no error and sets the state key to the
\* derived identifier.
C1_SecondCreateRequiresImport ==
  \A p \in Procs :
    Done(p, "Create") =>
      /\ (~resp[p].err /\ resp[p].status = 200) =>
            /\ seen[p] # {}
            /\ result[p] = "requires import"
            /\ cnt[p] = [ NoCount EXCEPT !.gets = 1 ]
            /\ key[p] = EmptyString
      /\ (resp[p].status = 404 /\ outcome[p] = "succeeded") =>
            /\ result[p] = ""
            /\ key[p] = id[p]

\* C1 witness: q's Create succeeded (it holds the key and wrote the object)
\* and p's later Create for the same identifier was refused.
C1_Witness ==
  \E p \in Procs, q \in Procs :
    /\ p # q
    /\ Done(p, "Create") /\ result[p] = "requires import"
    /\ key[q] = id[p] /\ q \in seen[p]
    /\ cfg[p].Name = cfg[q].Name /\ cfg[p].WebPubsubId = cfg[q].WebPubsubId

\* The object Create submits for a configuration.
SubmittedFor(c) == BuildCustomCertObj(ParseOptionallyVersionedNestedItemID(c.CustomCertId))

\* C2: after a successful Create, a Read against a remote that returns exactly
\* the submitted object stores a secret reference equal to the input string.
C2_SecretReferenceRoundTrip ==
  \A p \in Procs :
    ( /\ Done(p, "Read") /\ cnt[p].encodes = 1
      /\ resp[p].model = PtrTo(SubmittedFor(cfg[p])) )
    => state[p][1].CustomCertId = cfg[p].CustomCertId

\* C3: a Read whose Get reports not-found removes the binding from state and
\* returns no error, without a vault lookup and without encoding a record.
C3_ReadNotFoundMarksGone ==
  \A p \in Procs :
    (Done(p, "Read") /\ resp[p].err /\ resp[p].status = 404) =>
      /\ result[p] = ""
      /\ key[p] = EmptyString /\ state[p] = NilPtr
      /\ cnt[p].resolves = 0 /\ cnt[p].encodes = 0

\* C3 witness: a Read of a binding that had a state key found nothing.
C3_Witness ==
  \E p \in Procs :
    /\ Done(p, "Read") /\ resp[p].status = 404
    /\ before[p].key # EmptyString /\ key[p] = EmptyString

\* C4: the object Create submits carries a version exactly when the parsed
\* reference has a non-empty one, and then that one; a Read whose Get and vault
\* lookup succeed does not fail and sets the version attribute to the object's
\* version, or to the empty string when the object has none.
C4_SecretVersionRoundTrip ==
  \A p \in Procs :
    /\ (op[p] = "Create" /\ obj[p] # NilPtr) =>
          LET v == obj[p][1].KeyVaultSecretVersion
              given == IF Len(cfg[p].CustomCertId) = 6 THEN cfg[p].CustomCertId[6] ELSE ""
          IN  /\ cert[p].Version = given
              /\ (v # NilPtr) <=> (given # "")
              /\ (given # "") => v = << given >>
    /\ (Done(p, "Read") /\ resp[p].model # NilPtr /\ outcome[p] = "id") =>
          LET v == resp[p].model[1].KeyVaultSecretVersion IN
              /\ result[p] = ""
              /\ state[p] # NilPtr
              /\ state[p][1].CertificateVersion = (IF v = NilPtr THEN "" ELSE v[1])

\* C4 witness: a Read of an object without a version, created from a
\* reference without one, succeeded with an empty version attribute.
C4_Witness ==
  \E p \in Procs :
    /\ Done(p, "Read") /\ result[p] = "" /\ cnt[p].encodes = 1
    /\ Len(cfg[p].CustomCertId) = 5
    /\ resp[p].model[1].KeyVaultSecretVersion = NilPtr
    /\ state[p][1].CertificateVersion = ""

C6_KeySetOnlyOnSuccess ==
  \A p \in Procs :
    /\ pc[p] \in { "create_get", "create_put" } => key[p] = EmptyString
    /\ Done(p, "Create") =>
          /\ (key[p] # EmptyString) <=>
                (outcome[p] = "succeeded" /\ cnt[p].puts = 1 /\ cnt[p].polls = 1)
          /\ key[p] # EmptyString => (key[p] = id[p] /\ result[p] = "")
          /\ key[p] = EmptyString => result[p] # ""

\* C6 witness: the operation failed after the remote had written the object,
\* and Create returned the creation error without a key.
C6_Witness ==
  \E p \in Procs :
    /\ Done(p, "Create") /\ outcome[p] = "poll_failed_written"
    /\ store[id[p]] = obj[p]
    /\ result[p] = "creating web pubsub custom certificate"
    /\ key[p] = EmptyString

\* C7: the record Read stores has the name and the parent-service id of the
\* configuration Create was given, and the state key is the identifier of
\* that name under that parent, whatever the secret reference.
C7_ResourceIdRoundTrip ==
  \A p \in Procs :
    /\ state[p] # NilPtr =>
          /\ state[p][1].Name = cfg[p].Name
          /\ state[p][1].WebPubsubId = cfg[p].WebPubsubId
    /\ key[p] # EmptyString =>
          /\ key[p] = cfg[p].WebPubsubId \o << "customCertificates", cfg[p].Name >>
          /\ \A q \in Procs :
               ( /\ key[q] # EmptyString
                 /\ cfg[q].Name = cfg[p].Name
                 /\ cfg[q].WebPubsubId = cfg[p].WebPubsubId ) => key[q] = key[p]

\* C7 witness: a Read has just stored the record of a binding.
C7_Witness ==
  \E p \in Procs :
    /\ Done(p, "Read") /\ cnt[p].encodes = 1
    /\ state[p][1].Name = "cert2"
    /\ ParseWebPubSubID(state[p][1].WebPubsubId).ok

\* C8: a create-or-update is submitted only after the lookup reported
\* not-found; a lookup that fails otherwise, with or without an HTTP response,
\* makes Create return the lookup error, with no create-or-update and no
\* import-required error.
C8_LookupErrorSurfaced ==
  \A p \in Procs :
    /\ (pc[p] = "create_put" \/ cnt[p].puts > 0) => resp[p].status = 404
    /\ (Done(p, "Create") /\ resp[p].err /\ resp[p].status # 404) =>
          /\ result[p] = "checking for existing"
          /\ cnt[p].puts = 0
          /\ key[p] = EmptyString

\* C8 witness: the lookup failed without an HTTP response.
C8_Witness ==
  \E p \in Procs :
    /\ Done(p, "Create") /\ resp[p].err /\ resp[p].status = 0
    /\ result[p] = "checking for existing"

\* C9: a Read whose Get fails other than with not-found, or answers without a
\* payload, or whose vault lookup or vault-identifier parse fails, returns an
\* error and leaves the persisted state as it was; Read never issues a
\* create-or-update or a delete.
C9_ReadFailureReturnsError ==
  \A p \in Procs :
    Done(p, "Read") =>
      /\ cnt[p].puts = 0 /\ cnt[p].dels = 0
      /\ ( \/ (resp[p].err /\ resp[p].status # 404)
           \/ (~resp[p].err /\ cnt[p].gets = 1 /\ resp[p].model = NilPtr)
           \/ outcome[p] \in { "error", "bad_id", "none" } )
         => /\ result[p] \in { "retrieving", "got nil model",
                               "getting key vault base uri", "parsing key vault" }
            /\ state[p] = before[p].state
            /\ key[p] = before[p].key

\* C10 as claimed: an object is never written by two Creates that both
\* return success.
C10_AtMostOneCreateWins ==
  \A i \in AllIds : \A p \in Procs, q \in Procs :
    (p # q /\ key[p] = i /\ key[q] = i) => ~({p, q} \subseteq writers[i])

\* C10 as amended: a Create whose existence check is answered after another
\* invocation's write of the object submits no create-or-update and sets no
\* key; two Creates for one identifier can both succeed only when each one's
\* check was answered before the other's write.
C10_NoWriteAfterSeeingWriter ==
  \A p \in Procs :
    /\ (op[p] = "Create" /\ seen[p] # {}) =>
          /\ pc[p] # "create_put" /\ cnt[p].puts = 0
          /\ key[p] = EmptyString
    /\ \A q \in Procs :
         ( /\ p # q /\ Done(p, "Create") /\ result[p] = ""
           /\ key[q] = key[p] /\ {p, q} \subseteq writers[key[p]] ) => q \notin seen[p]

\* C10 witness: two overlapping Creates for one identifier both succeeded.
C10_Witness ==
  \E p \in Procs, q \in Procs :
    /\ p # q
    /\ Done(p, "Create") /\ result[p] = "" /\ seen[p] = {}
    /\ key[q] = key[p] /\ {p, q} \subseteq writers[key[p]]

====
